---- MODULE Spec2Model ----
(***************************************************************************)
(* LRUReplaySubject (src/index.js): an RxJS Subject that stores every      *)
(* emitted value in a QuickLRU cache and replays the cache, newest first,  *)
(* to each new subscriber.                                                 *)
(*                                                                         *)
(* The QuickLRU instance is modelled with its two generations (`cache`,    *)
(* the recent one, and `oldCache`), each a JavaScript Map, i.e. a sequence *)
(* of entries in insertion order with unique keys.  The RxJS Subject is    *)
(* modelled by its observers list and its stopped/error status.            *)
(***************************************************************************)
EXTENDS Integers, Sequences, FiniteSets, TLC

\* ----------------------------------------------------------------- bounds
NumVals == 5          \* distinct values that can be published
MaxPublish == 4       \* admitted publishes in one behaviour
MaxStorePublish == 3  \* admitted publishes where the store operations interleave
MaxTime == 3          \* last instant of the logical clock (Date.now())
NumConsumers == 2     \* subscriptions made in one behaviour
MaxHookAt == 2        \* a re-entrant callback publishes from its 1st or 2nd call
MaxCapacity == 2      \* largest finite maxSize
NumErrors == 2        \* distinct error objects
MaxLogged == 1        \* console.error calls recorded in one behaviour
NumSharers == 3       \* subscriptions made to one shared output
MaxEmit == 3          \* values the shared source emits

\* -------------------------------------------------------------- constants
POSITIVE_INFINITY == 1000000
undefined == 0
null == 0 - 1
TTL == 2              \* the finite maxAge used by the tests, in clock ticks

Values == 1..NumVals
Consumers == 1..NumConsumers
Errors == 1..NumErrors
Capacities == 1..MaxCapacity
Sharers == 1..NumSharers

VARIABLES
    config,     \* the constructor's config: maxSize, maxAge
    _cache,     \* the QuickLRU instance, with the entries it handed to onEviction
    subject,    \* the RxJS Subject part: isStopped, hasError, thrownError, observers
    cons,       \* per subscription: what the subscriber's callbacks received
    now,        \* Date.now()
    history,    \* history: admitted publishes, ids removed explicitly, resize seen,
                \* console.error calls
    source,     \* the Observable that shareLRUReplay is applied to
    shared      \* what each run of the defer factory created

vars == <<config, _cache, subject, cons, now, history, source, shared>>

\* ------------------------------------------------------------ JavaScript Map
MapHas(m, key) == \E i \in DOMAIN m : m[i].key = key

\* faulty variant: a Map that keeps the old entry of a key next to the new one
MapSetAppending(m, item) == Append(m, item)

MapSet(m, item) ==
    IF MapHas(m, item.key)
    THEN [i \in DOMAIN m |-> IF m[i].key = item.key THEN item ELSE m[i]]
    ELSE Append(m, item)

MapDelete(m, key) == SelectSeq(m, LAMBDA e : e.key # key)

Reverse(s) == [i \in 1..Len(s) |-> s[Len(s) + 1 - i]]

Range(s) == {s[i] : i \in DOMAIN s}

\* ------------------------------------------------------------------ QuickLRU
\* new QuickLRU({maxSize, maxAge, onEviction})
NewQuickLRU(maxSize, maxAge) ==
    [cache |-> <<>>, oldCache |-> <<>>, size |-> 0,
     maxSize |-> maxSize, maxAge |-> maxAge, emitted |-> <<>>]

\* onEviction(key, value) { onEviction.next(value) }, once per item
emitEvictions(q, items) == [q EXCEPT !.emitted = @ \o items]

\* faulty variant: delete tells onEviction what it removed
deleteReporting(q, key) ==
    LET gone == SelectSeq(q.cache \o q.oldCache, LAMBDA e : e.key = key)
    IN  [q EXCEPT !.cache = MapDelete(@, key),
                  !.size = IF MapHas(q.cache, key) THEN @ - 1 ELSE @,
                  !.oldCache = MapDelete(@, key),
                  !.emitted = @ \o gone]

\* QuickLRU.delete(key)
delete(q, key) ==
    [q EXCEPT !.cache = MapDelete(@, key),
              !.size = IF MapHas(q.cache, key) THEN @ - 1 ELSE @,
              !.oldCache = MapDelete(@, key)]

\* faulty variant: clear forgets the old generation
clearRecent(q) == [q EXCEPT !.cache = <<>>, !.size = 0]

\* QuickLRU.clear()
clear(q) == [q EXCEPT !.cache = <<>>, !.oldCache = <<>>, !.size = 0]

\* faulty variant: an expired entry is dropped without telling onEviction
deleteIfExpiredSilently(q, item, t) ==
    IF item.expiry # undefined /\ item.expiry <= t
    THEN [q |-> delete(q, item.key),
          deleted |-> MapHas(q.cache, item.key) \/ MapHas(q.oldCache, item.key)]
    ELSE [q |-> q, deleted |-> FALSE]

\* the entry is past its expiry: report it and delete its key
deleteIfExpired(q, item, t) ==
    IF item.expiry # undefined /\ item.expiry <= t
    THEN [q |-> delete(emitEvictions(q, <<item>>), item.key),
          deleted |-> MapHas(q.cache, item.key) \/ MapHas(q.oldCache, item.key)]
    ELSE [q |-> q, deleted |-> FALSE]

\* faulty variant: the old generation is dropped without telling onEviction
rotateSilently(q) ==
    [q EXCEPT !.size = 0, !.oldCache = q.cache, !.cache = <<>>]

\* faulty variant: a rotation adds the recent generation to the old one
rotateKeeping(q) ==
    [q EXCEPT !.size = 0, !.oldCache = q.oldCache \o q.cache, !.cache = <<>>]

\* the private #set: insert into the recent generation, rotate when it is full
rotate(q) ==
    [emitEvictions(q, q.oldCache) EXCEPT !.size = 0, !.oldCache = q.cache, !.cache = <<>>]

\* faulty variant: the rotation happens one insertion late
setRecentLate(q, item) ==
    LET q1 == [q EXCEPT !.cache = MapSet(@, item), !.size = @ + 1]
    IN  IF q1.size > q1.maxSize THEN rotate(q1) ELSE q1

setRecent(q, item) ==
    LET q1 == [q EXCEPT !.cache = MapSet(@, item), !.size = @ + 1]
    IN  IF q1.size >= q1.maxSize THEN rotate(q1) ELSE q1

\* faulty variant: overwriting a key of the recent generation keeps its expiry
setKeepingExpiry(q, key, value, t, id) ==
    LET expiry == IF q.maxAge # POSITIVE_INFINITY THEN t + q.maxAge ELSE undefined
        item == [key |-> key, value |-> value, expiry |-> expiry, id |-> id]
        old == CHOOSE e \in Range(q.cache) : e.key = key
    IN  IF MapHas(q.cache, key)
        THEN [q EXCEPT !.cache = MapSet(@, [item EXCEPT !.expiry = old.expiry])]
        ELSE setRecent(q, item)

\* QuickLRU.set(key, value): no per-call maxAge is ever passed by next()
set(q, key, value, t, id) ==
    LET expiry == IF q.maxAge # POSITIVE_INFINITY THEN t + q.maxAge ELSE undefined
        item == [key |-> key, value |-> value, expiry |-> expiry, id |-> id]
    IN  IF MapHas(q.cache, key)
        THEN [q EXCEPT !.cache = MapSet(@, item)]
        ELSE setRecent(q, item)

\* one generation of an iterator: skip shadowed keys, drop expired entries
RECURSIVE yieldLive(_, _, _, _, _)
yieldLive(q, items, i, t, skipShadowed) ==
    IF i > Len(items) THEN [q |-> q, out |-> <<>>]
    ELSE LET item == items[i]
         IN  IF skipShadowed /\ MapHas(q.cache, item.key)
             THEN yieldLive(q, items, i + 1, t, skipShadowed)
             ELSE LET d == deleteIfExpired(q, item, t)
                      rest == yieldLive(d.q, items, i + 1, t, skipShadowed)
                  IN  [q |-> rest.q,
                       out |-> IF d.deleted THEN rest.out ELSE <<item>> \o rest.out]

\* QuickLRU.entriesDescending(): recent generation backwards, then the old one
entriesDescending(q, t) ==
    LET p1 == yieldLive(q, Reverse(q.cache), 1, t, FALSE)
        p2 == yieldLive(p1.q, Reverse(p1.q.oldCache), 1, t, TRUE)
    IN  [q |-> p2.q, out |-> p1.out \o p2.out]

\* QuickLRU.entriesAscending(): old generation, then the recent one
entriesAscending(q, t) ==
    LET p1 == yieldLive(q, q.oldCache, 1, t, TRUE)
        p2 == yieldLive(p1.q, p1.q.cache, 1, t, FALSE)
    IN  [q |-> p2.q, out |-> p1.out \o p2.out]

\* QuickLRU.resize(newSize)
resize(q, newSize, t) ==
    LET it == entriesAscending(q, t)
        items == it.out
        removeCount == Len(items) - newSize
    IN  IF removeCount < 0
        THEN [it.q EXCEPT !.cache = items, !.oldCache = <<>>,
                          !.size = Len(items), !.maxSize = newSize]
        ELSE [emitEvictions(it.q, SubSeq(items, 1, removeCount))
                EXCEPT !.oldCache = SubSeq(items, removeCount + 1, Len(items)),
                       !.cache = <<>>, !.size = 0, !.maxSize = newSize]

\* ------------------------------------------------------- the whole program
\* the state as one record, so that a handler is a function from state to state
Cur ==
    [q |-> _cache, subj |-> subject, cons |-> cons, now |-> now, hist |-> history]

Becomes(S) ==
    /\ _cache' = S.q
    /\ subject' = S.subj
    /\ cons' = S.cons
    /\ now' = S.now
    /\ history' = S.hist
    /\ UNCHANGED <<config, source, shared>>

NextEv(v) == [t |-> "next", v |-> v]
ErrorEv(e) == [t |-> "error", v |-> e]
CompleteEv == [t |-> "complete", v |-> 0]

NoHook == [at |-> 0, val |-> 0, throws |-> FALSE]

NewConsumer ==
    [st |-> "new", kind |-> "fn", hook |-> NoHook, log |-> <<>>,
     nreplay |-> 0, from |-> 0, upto |-> 0, seen |-> 0]

\* what a value stands for when it is looked into: an object whose field at
\* the configured key path is id (absent in every second object, shared by
\* some) and which may carry a numeric maxAge field, as the objects
\* {key: '1', value: 'test', maxAge: 100} of the tests do
Shape(value) ==
    [id |-> IF value % 2 = 1 THEN NumVals + 1 + (value \div 4) ELSE undefined,
     maxAge |-> IF value % 2 = 1 THEN 1 ELSE undefined]

\* tryExtractKey(key)(object): the object itself without a key path, else what
\* is found at the path, undefined when a segment is absent
tryExtractKey(key, object) == IF ~key THEN object ELSE Shape(object).id

\* a caller-supplied config.map
customMap(value) == 2 * NumVals + 2 + (value \div 3)

\* faulty variant: the key path wins over config.map
_mapperKeyFirst(value) ==
    IF config.key THEN tryExtractKey(config.key, value)
    ELSE IF config.map THEN customMap(value)
    ELSE value

\* this._mapper = map || tryExtractKey(key)
_mapper(value) ==
    IF config.map THEN customMap(value) ELSE tryExtractKey(config.key, value)

\* what was passed to subscribe: a function ("fn"), an object with next, error
\* and complete ("obs"), an object with error and complete only ("partial"),
\* the empty object ("empty"), or neither a function nor an object ("invalid")
SubscriberKinds == {"fn", "obs", "partial", "empty", "invalid"}
HasNext(kind) == kind \in {"fn", "obs"}
HasTerminal(kind) == kind \in {"obs", "partial"}

NextCalls(log) == Len(SelectSeq(log, LAMBDA ev : ev.t = "next"))

RECURSIVE next(_, _), onNext(_, _, _), fanout(_, _, _, _)

\* the subscriber's next callback: record the value and how many
\* notifications the eviction sink has had so far; in its hook.at-th invocation
\* a re-entrant subscriber calls subject.next(hook.val) and a throwing one
\* throws. Called from the replay loop the exception leaves subscribe; called
\* by Subject.next it is caught by the SafeSubscriber and reported later
onNext(S, c, v) ==
    LET S1 == [S EXCEPT !.cons[c].log = Append(@, NextEv(v)),
                        !.cons[c].seen = Len(S.q.emitted)]
        h == S.cons[c].hook
    IN  IF ~HasNext(S.cons[c].kind) THEN S
        ELSE IF h.at # 0 /\ NextCalls(S1.cons[c].log) = h.at
        THEN IF ~h.throws THEN next(S1, h.val)
             ELSE IF S.cons[c].st = "new" THEN [S1 EXCEPT !.cons[c].st = "threw"]
             ELSE S1
        ELSE S1

\* faulty variant: only the first observer is served
fanoutFirstOnly(S, obs, i, v) ==
    IF i > Len(obs) \/ i > 1 THEN S
    ELSE IF S.cons[obs[i]].st = "attached" THEN onNext(S, obs[i], v) ELSE S

\* Subject.next: for (const observer of currentObservers) observer.next(value)
fanout(S, obs, i, v) ==
    IF i > Len(obs) THEN S
    ELSE fanout(IF S.cons[obs[i]].st = "attached" THEN onNext(S, obs[i], v) ELSE S,
                obs, i + 1, v)

Subject_next(S, v) ==
    IF S.subj.isStopped THEN S ELSE fanout(S, S.subj.observers, 1, v)

\* faulty variant: null and undefined are stored and forwarded like any value
nextUnguarded(S, value) ==
    LET id == Len(S.hist.published) + 1
        key == _mapper(value)
        S1 == [S EXCEPT
                 !.q = set(@, key, value, S.now, id),
                 !.hist.published =
                     Append(@, [key |-> key, value |-> value, at |-> S.now])]
    IN  Subject_next(S1, value)

\* faulty variant: the value is forwarded before it is stored
nextForwardFirst(S, value) ==
    LET id == Len(S.hist.published) + 1
        key == _mapper(value)
        S1 == Subject_next([S EXCEPT
                 !.hist.published =
                     Append(@, [key |-> key, value |-> value, at |-> S.now])], value)
    IN  IF value = undefined \/ value = null
        THEN [S EXCEPT !.hist.logged = @ + 1]
        ELSE [S1 EXCEPT !.q = set(@, key, value, S.now, id)]

\* LRUReplaySubject.next(value): console.error and return for null / undefined,
\* otherwise _cache.set and then super.next
next(S, value) ==
    LET id == Len(S.hist.published) + 1
        key == _mapper(value)
        S1 == [S EXCEPT
                 !.q = set(@, key, value, S.now, id),
                 !.hist.published =
                     Append(@, [key |-> key, value |-> value, at |-> S.now])]
    IN  IF value = undefined \/ value = null
        THEN [S EXCEPT !.hist.logged = @ + 1]
        ELSE Subject_next(S1, value)

\* faulty variant: an old entry is replayed even when the recent generation has its key
RECURSIVE replayGenShadowed(_, _, _, _, _)
replayGenShadowed(S, c, items, i, skipShadowed) ==
    IF i > Len(items) THEN S
    ELSE LET item == items[i]
             d == deleteIfExpired(S.q, item, S.now)
             S1 == [S EXCEPT !.q = d.q]
             S2 == IF d.deleted THEN S1 ELSE onNext(S1, c, item.value)
         IN  replayGenShadowed(S2, c, items, i + 1, skipShadowed)

\* faulty variant: a replayed entry becomes the most recent one, as get() would
RECURSIVE replayGenPromoting(_, _, _, _, _)
replayGenPromoting(S, c, items, i, skipShadowed) ==
    IF i > Len(items) THEN S
    ELSE LET item == items[i]
         IN  IF skipShadowed /\ MapHas(S.q.cache, item.key)
             THEN replayGenPromoting(S, c, items, i + 1, skipShadowed)
             ELSE LET d == deleteIfExpired(S.q, item, S.now)
                      S1 == [S EXCEPT !.q = d.q]
                      S2 == IF d.deleted THEN S1
                            ELSE onNext([S1 EXCEPT
                                           !.q.cache = Append(MapDelete(@, item.key), item),
                                           !.q.oldCache = MapDelete(@, item.key)],
                                        c, item.value)
                  IN  replayGenPromoting(S2, c, items, i + 1, skipShadowed)

\* the for...of loop of subscribe over one generation of entriesDescending()
RECURSIVE replayGen(_, _, _, _, _)
replayGen(S, c, items, i, skipShadowed) ==
    IF i > Len(items) \/ S.cons[c].st = "threw" THEN S
    ELSE LET item == items[i]
         IN  IF skipShadowed /\ MapHas(S.q.cache, item.key)
             THEN replayGen(S, c, items, i + 1, skipShadowed)
             ELSE LET d == deleteIfExpired(S.q, item, S.now)
                      S1 == [S EXCEPT !.q = d.q]
                      S2 == IF d.deleted THEN S1 ELSE onNext(S1, c, item.value)
                  IN  replayGen(S2, c, items, i + 1, skipShadowed)

\* faulty variant: a stopped subject hands out the empty subscription without
\* telling the subscriber why
super_subscribeSilent(S, c) ==
    LET n == Len(S.hist.published)
    IN  IF S.subj.isStopped
        THEN [S EXCEPT !.cons[c].st = "stopped", !.cons[c].from = n, !.cons[c].upto = n]
        ELSE [S EXCEPT !.cons[c].st = "attached", !.cons[c].from = n,
                       !.subj.observers = Append(@, c)]

\* Subject._subscribe: _checkFinalizedStatuses, then _innerSubscribe
super_subscribe(S, c) ==
    LET n == Len(S.hist.published)
        hasHandlers == HasTerminal(S.cons[c].kind)
    IN  IF S.subj.hasError
        THEN [S EXCEPT !.cons[c].st = "stopped", !.cons[c].from = n, !.cons[c].upto = n,
                       !.cons[c].log = IF hasHandlers
                                       THEN Append(@, ErrorEv(S.subj.thrownError)) ELSE @]
        ELSE IF S.subj.isStopped
        THEN [S EXCEPT !.cons[c].st = "stopped", !.cons[c].from = n, !.cons[c].upto = n,
                       !.cons[c].log = IF hasHandlers THEN Append(@, CompleteEv) ELSE @]
        ELSE [S EXCEPT !.cons[c].st = "attached", !.cons[c].from = n,
                       !.subj.observers = Append(@, c)]

\* faulty variant: the recent generation is replayed oldest first
subscribeAscending(S, c, kind, hook) ==
    LET S0 == [S EXCEPT !.cons[c].kind = kind, !.cons[c].hook = hook]
        S1 == replayGen(S0, c, S0.q.cache, 1, FALSE)
        S2 == replayGen(S1, c, Reverse(S1.q.oldCache), 1, TRUE)
        S3 == [S2 EXCEPT !.cons[c].nreplay = Len(S2.cons[c].log)]
    IN  super_subscribe(S3, c)

\* faulty variant: the subscriber is registered although its callback threw
subscribeDespiteThrow(S, c, kind, hook) ==
    LET S0 == [S EXCEPT !.cons[c].kind = kind, !.cons[c].hook = hook]
        S1 == replayGen(S0, c, Reverse(S0.q.cache), 1, FALSE)
        S2 == replayGen(S1, c, Reverse(S1.q.oldCache), 1, TRUE)
        S3 == [S2 EXCEPT !.cons[c].nreplay = Len(S2.cons[c].log)]
    IN  IF S3.cons[c].st = "threw"
        THEN [S3 EXCEPT !.subj.observers = Append(@, c)]
        ELSE super_subscribe(S3, c)

\* LRUReplaySubject.subscribe(subscriber), subscriber a function ("fn") or an
\* object with next, error and complete ("obs"); an exception thrown by the
\* callback in the replay loop ends the call before super.subscribe
subscribe(S, c, kind, hook) ==
    LET S0 == [S EXCEPT !.cons[c].kind = kind, !.cons[c].hook = hook]
        S1 == replayGen(S0, c, Reverse(S0.q.cache), 1, FALSE)
        S2 == replayGen(S1, c, Reverse(S1.q.oldCache), 1, TRUE)
        S3 == [S2 EXCEPT !.cons[c].nreplay = Len(S2.cons[c].log)]
    IN  IF kind = "invalid"
        THEN [S EXCEPT !.cons[c].kind = kind, !.cons[c].st = "threw"]
        ELSE IF ~HasNext(kind) THEN super_subscribe(S0, c)
        ELSE IF S3.cons[c].st = "threw" THEN S3
        ELSE super_subscribe(S3, c)

\* faulty variant: unsubscribing one observer empties the observers list
unsubscribeAll(S, c) ==
    IF S.cons[c].st # "attached" THEN S
    ELSE [S EXCEPT !.cons[c].st = "detached",
                   !.cons[c].upto = Len(S.hist.published),
                   !.subj.observers = <<>>]

\* Subscription.unsubscribe() of the handle subscribe returned
unsubscribe(S, c) ==
    IF S.cons[c].st # "attached" THEN S
    ELSE [S EXCEPT !.cons[c].st = "detached",
                   !.cons[c].upto = Len(S.hist.published),
                   !.subj.observers = SelectSeq(@, LAMBDA o : o # c)]

\* the terminal signal reaches every observer, and the list is emptied
terminate(S, ev) ==
    [S EXCEPT !.subj.observers = <<>>,
              !.cons = [c \in Consumers |->
                  IF S.cons[c].st = "attached"
                  THEN [S.cons[c] EXCEPT
                          !.st = "stopped",
                          !.upto = Len(S.hist.published),
                          !.log = IF HasTerminal(S.cons[c].kind) THEN Append(@, ev) ELSE @]
                  ELSE S.cons[c]]]

\* faulty variant: error() on a stopped subject records the new error
errorAlways(S, err) ==
    terminate([S EXCEPT !.subj.isStopped = TRUE, !.subj.hasError = TRUE,
                        !.subj.thrownError = err], ErrorEv(err))

\* Subject.error(err)
error(S, err) ==
    IF S.subj.isStopped THEN S
    ELSE terminate([S EXCEPT !.subj.isStopped = TRUE, !.subj.hasError = TRUE,
                             !.subj.thrownError = err], ErrorEv(err))

\* Subject.complete()
complete(S) ==
    IF S.subj.isStopped THEN S
    ELSE terminate([S EXCEPT !.subj.isStopped = TRUE], CompleteEv)

\* --------------------------------------------------------- shareLRUReplay
\* new LRUReplaySubject(config), as a state record
NewLRUReplaySubject(cfg) ==
    [q |-> NewQuickLRU(cfg.maxSize, cfg.maxAge),
     subj |-> [isStopped |-> FALSE, hasError |-> FALSE, thrownError |-> 0,
               observers |-> <<>>],
     cons |-> [c \in Consumers |-> NewConsumer],
     now |-> 1,
     hist |-> [published |-> <<>>, removed |-> {}, resized |-> FALSE, logged |-> 0]]

\* the source: a plain Subject, with the subscribe and unsubscribe calls it saw;
\* fragile: the teardown of a subscription to it throws
NewSource ==
    [isStopped |-> FALSE, hasError |-> FALSE, thrownError |-> 0,
     emitted |-> <<>>, subscribes |-> 0, unsubscribes |-> 0,
     cold |-> FALSE, script |-> <<>>, fragile |-> FALSE]

\* of(1, ..., n): every subscribe is handed the n values and then complete,
\* before the subscribe call returns
ColdSource(n) == [NewSource EXCEPT !.cold = TRUE, !.script = [k \in 1..n |-> k]]

\* one run of the defer factory: its subject, its activeSubscribers, and its
\* subscription to the source; peers counts the subscribers of the output
\* that were attached when the factory ran
NoInstance(cfg) ==
    [made |-> FALSE, S |-> NewLRUReplaySubject(cfg), activeSubscribers |-> 0,
     subscription |-> "none", peers |-> 0, failure |-> "none"]

\* within its instance, the output's subscriber is the subject's observer 1
Solo == 1

LiveIn(inst) == {i \in Sharers : inst[i].subscription = "live"}
FirstIn(among) == CHOOSE i \in among : \A j \in among : i <= j

AttachedTo(inst) ==
    {i \in Sharers : inst[i].made /\ inst[i].S.cons[Solo].st = "attached"}

\* faulty variant: the source is subscribed when the operator is applied
shareLRUReplayEager(src, cfg) ==
    [src |-> [src EXCEPT !.subscribes = 1],
     inst |-> [i \in Sharers |->
                 IF i = 1 THEN [NoInstance(cfg) EXCEPT !.subscription = "live"]
                 ELSE NoInstance(cfg)]]

\* shareLRUReplay(config)(source): defer(...), nothing runs yet
shareLRUReplay(src, cfg) ==
    [src |-> src, inst |-> [i \in Sharers |-> NoInstance(cfg)]]

\* the body of the defer factory up to the return: a new subject, a counter at
\* zero, and source.subscribe({next, error, complete}); a stopped source
\* answers with its recorded terminal signal
RECURSIVE nextEach(_, _, _)
nextEach(S, vs, k) ==
    IF k > Len(vs) THEN S ELSE nextEach(next(S, vs[k]), vs, k + 1)

\* faulty variant: the subscription to the source has no complete handler
factoryDeaf(H, i, cfg) ==
    LET S0 == NewLRUReplaySubject(cfg)
        S1 == IF H.src.cold THEN nextEach(S0, H.src.script, 1)
              ELSE IF H.src.hasError THEN error(S0, H.src.thrownError)
              ELSE S0
        over == H.src.cold \/ H.src.isStopped
    IN  [H EXCEPT !.src.subscribes = @ + 1,
                  !.inst[i] = [made |-> TRUE, S |-> S1, activeSubscribers |-> 0,
                               subscription |-> IF over THEN "closed" ELSE "live",
                               peers |-> Cardinality(AttachedTo(H.inst)),
                               failure |-> "none"]]

factory(H, i, cfg) ==
    LET S0 == NewLRUReplaySubject(cfg)
        S1 == IF H.src.cold THEN complete(nextEach(S0, H.src.script, 1))
              ELSE IF H.src.hasError THEN error(S0, H.src.thrownError)
              ELSE IF H.src.isStopped THEN complete(S0)
              ELSE S0
        over == H.src.cold \/ H.src.isStopped
    IN  [H EXCEPT !.src.subscribes = @ + 1,
                  !.inst[i] = [made |-> TRUE, S |-> S1, activeSubscribers |-> 0,
                               subscription |-> IF over THEN "closed" ELSE "live",
                               peers |-> Cardinality(AttachedTo(H.inst)),
                               failure |-> "none"]]

\* faulty variant: the last subscriber leaves and the source stays subscribed
cleanupKeepingUpstream(H, i) ==
    [H EXCEPT !.inst[i].S = unsubscribe(@, Solo),
              !.inst[i].activeSubscribers = @ - 1]

\* faulty variant: the cleanup has no try / catch
cleanupUncaught(H, i) ==
    LET I == H.inst[i]
        I1 == [I EXCEPT !.S = unsubscribe(@, Solo), !.activeSubscribers = @ - 1]
        throws == I.subscription = "live" /\ H.src.fragile
    IN  IF I1.activeSubscribers = 0
        THEN [H EXCEPT !.inst[i] = [I1 EXCEPT !.subscription = "closed",
                                              !.failure = IF throws THEN "raised" ELSE @],
                       !.src.unsubscribes = IF I.subscription = "live" THEN @ + 1 ELSE @]
        ELSE [H EXCEPT !.inst[i] = I1]

\* the cleanup function the inner Observable returns: sub.unsubscribe(), the
\* counter, subscription.unsubscribe() at zero, all inside try / catch; a
\* subscription whose teardown throws is closed all the same
cleanup(H, i) ==
    LET I == H.inst[i]
        I1 == [I EXCEPT !.S = unsubscribe(@, Solo), !.activeSubscribers = @ - 1]
        throws == I.subscription = "live" /\ H.src.fragile
    IN  IF I1.activeSubscribers = 0
        THEN [H EXCEPT !.inst[i] = [I1 EXCEPT !.subscription = "closed",
                                              !.failure = IF throws THEN "logged" ELSE @],
                       !.src.unsubscribes = IF I.subscription = "live" THEN @ + 1 ELSE @]
        ELSE [H EXCEPT !.inst[i] = I1]

\* output.subscribe(observer): defer runs the factory and subscribes the
\* observer to the Observable it returned; a subscriber that is closed when
\* the body returns has its cleanup run at once
outputSubscribe(H, i, cfg) ==
    LET H1 == factory(H, i, cfg)
        H2 == [H1 EXCEPT !.inst[i].activeSubscribers = @ + 1,
                         !.inst[i].S = subscribe(@, Solo, "obs", NoHook)]
    IN  IF H2.inst[i].S.cons[Solo].st = "stopped" THEN cleanup(H2, i) ELSE H2

\* unsubscribe() of the subscription output.subscribe returned
outputUnsubscribe(H, i) ==
    IF H.inst[i].S.cons[Solo].st = "attached" THEN cleanup(H, i) ELSE H

\* faulty variant: only the first live subscription is served
sourceNextFirst(H, i, v) ==
    IF LiveIn(H.inst) = {} THEN H
    ELSE [H EXCEPT !.inst[FirstIn(LiveIn(H.inst))].S = next(@, v)]

\* the source emits: every live subscription runs subject.next(value)
RECURSIVE sourceNextFrom(_, _, _)
sourceNextFrom(H, i, v) ==
    IF i > NumSharers THEN H
    ELSE sourceNextFrom(IF H.inst[i].subscription = "live"
                        THEN [H EXCEPT !.inst[i].S = next(@, v)]
                        ELSE H,
                        i + 1, v)

sourceNext(H, v) ==
    IF H.src.isStopped THEN H
    ELSE sourceNextFrom([H EXCEPT !.src.emitted = Append(@, v)], 1, v)

\* the source fails or completes: every live subscription runs subject.error
\* or subject.complete, which closes the subject's subscriber and so runs
\* its cleanup
RECURSIVE sourceEndFrom(_, _, _)
sourceEndFrom(H, i, ev) ==
    IF i > NumSharers THEN H
    ELSE IF H.inst[i].subscription # "live" THEN sourceEndFrom(H, i + 1, ev)
    ELSE LET H1 == [H EXCEPT !.inst[i].S = IF ev.t = "error" THEN error(@, ev.v)
                                           ELSE complete(@)]
         IN  sourceEndFrom(cleanup(H1, i), i + 1, ev)

sourceError(H, err) ==
    IF H.src.isStopped THEN H
    ELSE sourceEndFrom([H EXCEPT !.src.isStopped = TRUE, !.src.hasError = TRUE,
                                 !.src.thrownError = err], 1, ErrorEv(err))

sourceComplete(H) ==
    IF H.src.isStopped THEN H
    ELSE sourceEndFrom([H EXCEPT !.src.isStopped = TRUE], 1, CompleteEv)

\* ids of the entries stored under a key, in either generation
IdsOf(m) == {m[i].id : i \in DOMAIN m}
IdsUnder(q, key) ==
    {e.id : e \in {x \in Range(q.cache) \cup Range(q.oldCache) : x.key = key}}

\* ------------------------------------------------------------------ actions
\* new LRUReplaySubject({maxSize, maxAge}), nothing published yet
ConstructWith(maxSizes, maxAges, keys, maps, sources) ==
    /\ config \in [maxSize : maxSizes, maxAge : maxAges, key : keys, map : maps]
    /\ _cache = NewQuickLRU(config.maxSize, config.maxAge)
    /\ subject = [isStopped |-> FALSE, hasError |-> FALSE, thrownError |-> 0,
                  observers |-> <<>>]
    /\ cons = [c \in Consumers |-> NewConsumer]
    /\ now = 1
    /\ history = [published |-> <<>>, removed |-> {}, resized |-> FALSE, logged |-> 0]
    /\ \E src \in sources :
          /\ source = shareLRUReplay(src, config).src
          /\ shared = shareLRUReplay(src, config).inst

\* neither key nor map configured, and the source to share a plain Subject
Construct(maxSizes, maxAges) ==
    ConstructWith(maxSizes, maxAges, {FALSE}, {FALSE}, {NewSource})

\* any capacity, the default maxAge
Init == Construct(Capacities \cup {POSITIVE_INFINITY}, {POSITIVE_INFINITY})

\* any capacity, with and without a maxAge
InitAge == Construct(Capacities \cup {POSITIVE_INFINITY}, {TTL, POSITIVE_INFINITY})

PubCount == Len(history.published)

\* values are opaque: a behaviour uses them in the order 1, 2, 3, ...
Used == IF history.published = <<>> THEN 0
        ELSE CHOOSE m \in Values :
               /\ \E i \in DOMAIN history.published : history.published[i].value = m
               /\ \A i \in DOMAIN history.published : history.published[i].value <= m

\* subject.next(v)
Publish(v) ==
    /\ Len(history.published) < MaxPublish
    /\ v <= Used + 1
    /\ Becomes(next(Cur, v))

\* subject.next(v), in the behaviours that also delete, clear and resize
PublishStore(v) ==
    /\ Len(history.published) < MaxStorePublish
    /\ v <= Used + 1
    /\ Becomes(next(Cur, v))

\* subject.next(v) with a key that was never published before
PublishFresh(v) ==
    /\ v = Len(history.published) + 1
    /\ Becomes(next(Cur, v))

\* subject.subscribe(subscriber), the subscriber's callbacks only record
Attach(c, kind) ==
    /\ cons[c].st = "new"
    /\ \A d \in Consumers : d < c => cons[d].st # "new"
    /\ Becomes(subscribe(Cur, c, kind, NoHook))

\* subject.next(undefined) or subject.next(null)
PublishNothing(value) ==
    /\ history.logged < MaxLogged
    /\ Becomes(next(Cur, value))

\* subject.subscribe(subscriber), the subscriber anything at all
AttachAny(c, kind) ==
    /\ cons[c].st = "new"
    /\ \A d \in Consumers : d < c => cons[d].st # "new"
    /\ Becomes(subscribe(Cur, c, kind, NoHook))

\* subject.subscribe(v => { ...; if (++calls === at) subject.next(fresh) })
AttachReentrant(c, at) ==
    /\ cons[c].st = "new"
    /\ \A d \in Consumers : d < c => cons[d].st # "new"
    /\ PubCount < MaxPublish
    /\ Used + 1 \in Values
    /\ Becomes(subscribe(Cur, c, "fn", [at |-> at, val |-> Used + 1, throws |-> FALSE]))

\* subject.subscribe(v => { ...; if (++calls === at) throw new Error() })
AttachThrowing(c, at) ==
    /\ cons[c].st = "new"
    /\ \A d \in Consumers : d < c => cons[d].st # "new"
    /\ Becomes(subscribe(Cur, c, "fn", [at |-> at, val |-> 0, throws |-> TRUE]))

\* subscription.unsubscribe()
Detach(c) ==
    /\ cons[c].st # "new"
    /\ Becomes(unsubscribe(Cur, c))

\* subject.error(err)
Fail(err) == Becomes(error(Cur, err))

\* subject.complete()
Close == Becomes(complete(Cur))

\* subject.delete(key), delegated to the cache
Delete(key) ==
    /\ key <= Used
    /\ Becomes([Cur EXCEPT !.q = delete(@, key),
                           !.hist.removed = @ \cup IdsUnder(_cache, key)])

\* subject.clear(), delegated to the cache
Clear ==
    Becomes([Cur EXCEPT !.q = clear(@),
                        !.hist.removed = @ \cup IdsOf(_cache.cache) \cup IdsOf(_cache.oldCache)])

\* subject.resize(newSize), delegated to the cache
Resize(newSize) ==
    LET q2 == resize(_cache, newSize, now)
        kept == IdsOf(q2.cache) \cup IdsOf(q2.oldCache)
        gone == (IdsOf(_cache.cache) \cup IdsOf(_cache.oldCache)) \ kept
    IN  Becomes([Cur EXCEPT !.q = q2,
                            !.hist.removed = @ \cup gone,
                            !.hist.resized = TRUE])

\* time passes; the clock is only read to set and test expiries
Tick ==
    /\ config.maxAge # POSITIVE_INFINITY
    /\ now < MaxTime
    /\ now' = now + 1
    /\ UNCHANGED <<config, _cache, subject, cons, history, source, shared>>

\* time passes on an instance without a default maxAge
Wait ==
    /\ now < MaxTime
    /\ now' = now + 1
    /\ UNCHANGED <<config, _cache, subject, cons, history, source, shared>>

\* any capacity, no maxAge, with and without config.key and config.map
InitKeyed ==
    ConstructWith(Capacities \cup {POSITIVE_INFINITY}, {POSITIVE_INFINITY},
                  BOOLEAN, BOOLEAN, {NewSource})

\* the shared output as one record
CurShare == [src |-> source, inst |-> shared]

ShareBecomes(H) ==
    /\ source' = H.src
    /\ shared' = H.inst
    /\ UNCHANGED <<config, _cache, subject, cons, now, history>>

\* a shared source: a Subject, one whose teardown throws, or of(1, ..., n)
Sources ==
    {NewSource, [NewSource EXCEPT !.fragile = TRUE]} \cup {ColdSource(n) : n \in 0..MaxEmit}

InitShare ==
    ConstructWith(Capacities \cup {POSITIVE_INFINITY}, {POSITIVE_INFINITY},
                  {FALSE}, {FALSE}, Sources)

\* source.next(v), each value a new one
SourceEmit(v) ==
    /\ ~source.cold
    /\ Len(source.emitted) < MaxEmit
    /\ v = Len(source.emitted) + 1
    /\ ShareBecomes(sourceNext(CurShare, v))

\* source.error(err)
SourceFail(err) ==
    /\ ~source.cold
    /\ ShareBecomes(sourceError(CurShare, err))

\* source.complete()
SourceClose ==
    /\ ~source.cold
    /\ ShareBecomes(sourceComplete(CurShare))

\* shared$.subscribe(observer)
ShareAttach(i) ==
    /\ ~shared[i].made
    /\ \A j \in Sharers : j < i => shared[j].made
    /\ ShareBecomes(outputSubscribe(CurShare, i, config))

\* subscription.unsubscribe() on a subscription of the shared output
ShareDetach(i) ==
    /\ shared[i].made
    /\ ShareBecomes(outputUnsubscribe(CurShare, i))

\* publish, attach, detach, fail and close, on an instance without maxAge
Next ==
    \/ \E v \in Values : Publish(v)
    \/ \E c \in Consumers, kind \in {"fn", "obs"} : Attach(c, kind)
    \/ \E c \in Consumers : Detach(c)
    \/ \E err \in Errors : Fail(err)
    \/ Close

Spec == Init /\ [][Next]_vars

\* publish, attach, the delegated store operations, and time
NextStore ==
    \/ \E v \in Values : PublishStore(v)
    \/ \E c \in Consumers : Attach(c, "fn")
    \/ \E key \in Values : Delete(key)
    \/ Clear
    \/ \E newSize \in Capacities : Resize(newSize)
    \/ Tick

SpecStore == InitAge /\ [][NextStore]_vars

\* publishes of pairwise distinct keys, attach, and time
NextDistinct ==
    \/ \E v \in Values : PublishFresh(v)
    \/ \E c \in Consumers, kind \in {"fn", "obs"} : Attach(c, kind)
    \/ Tick

SpecDistinct == InitAge /\ [][NextDistinct]_vars

\* publish and attach, with subscribers whose next callback publishes
NextReentrant ==
    \/ \E v \in Values : Publish(v)
    \/ \E c \in Consumers : Attach(c, "fn")
    \/ \E c \in Consumers, at \in 1..MaxHookAt : AttachReentrant(c, at)

SpecReentrant == Init /\ [][NextReentrant]_vars

\* valid and invalid publishes, valid and invalid subscribers, and time
NextGuard ==
    \/ \E v \in Values : PublishStore(v)
    \/ \E value \in {undefined, null} : PublishNothing(value)
    \/ \E c \in Consumers, kind \in SubscriberKinds : AttachAny(c, kind)
    \/ Tick

SpecGuard == InitAge /\ [][NextGuard]_vars

\* publishes, time, a terminal error, and subscribers whose next callback throws
NextThrow ==
    \/ \E v \in Values : PublishStore(v)
    \/ \E c \in Consumers : Attach(c, "fn")
    \/ \E c \in Consumers, at \in 1..MaxHookAt : AttachThrowing(c, at)
    \/ \E err \in Errors : Fail(err)
    \/ Tick

SpecThrow == InitAge /\ [][NextThrow]_vars

\* publishes of objects under a configured key path or key function
NextKeyed ==
    \/ \E v \in Values : Publish(v)
    \/ \E c \in Consumers : Attach(c, "fn")

SpecKeyed == InitKeyed /\ [][NextKeyed]_vars

\* publishes of objects some of which carry a maxAge field, on an instance
\* without a default maxAge, and time
NextItemAge ==
    \/ \E v \in Values : PublishFresh(v)
    \/ \E c \in Consumers : Attach(c, "fn")
    \/ Wait

SpecItemAge == Init /\ [][NextItemAge]_vars

\* a source shared with shareLRUReplay: it emits, fails and completes while
\* subscribers of the output come and go
NextShare ==
    \/ \E v \in Values : SourceEmit(v)
    \/ \E err \in Errors : SourceFail(err)
    \/ SourceClose
    \/ \E i \in Sharers : ShareAttach(i)
    \/ \E i \in Sharers : ShareDetach(i)

SpecShare == InitShare /\ [][NextShare]_vars

\* ------------------------------------------------------------- vocabulary
\* the step is the subscribe call of consumer c
Attaches(c) == cons[c].st = "new" /\ cons'[c].st # "new"

ValuesOf(items) == [i \in DOMAIN items |-> items[i].value]
IdsIn(items) == [i \in DOMAIN items |-> items[i].id]

\* the values a consumer's next callback received, and the part of them
\* delivered by the snapshot replay
NextValues(cn) ==
    LET nx == SelectSeq(cn.log, LAMBDA ev : ev.t = "next")
    IN  [i \in DOMAIN nx |-> nx[i].v]
ReplayOf(cn) == [i \in 1..cn.nreplay |-> cn.log[i].v]

PubValues == ValuesOf(history.published)
DistinctKeys ==
    \A i, j \in DOMAIN history.published :
        i # j => history.published[i].key # history.published[j].key
NoExpiry == config.maxAge = POSITIVE_INFINITY

HeldValues == {e.value : e \in Range(_cache.cache) \cup Range(_cache.oldCache)}
EmittedIds == Range(IdsIn(_cache.emitted))
\* what the subscribers of onEviction received
EvictionSink == ValuesOf(_cache.emitted)

\* ------------------------------------------------------------------ claims

\* C1: after publishes with pairwise distinct keys and no expiry, an attaching
\* consumer is replayed exactly the values the store still holds, in reverse
\* publish order (newest first).
C1_ReplayReversePublishOrder ==
    [][\A c \in Consumers :
         (Attaches(c) /\ DistinctKeys /\ NoExpiry) =>
             ReplayOf(cons'[c]) =
                 SelectSeq(Reverse(PubValues), LAMBDA v : v \in HeldValues)]_vars

\* a consumer was replayed three values after older ones had been evicted
C1_Witness ==
    \E c \in Consumers :
        /\ NoExpiry /\ DistinctKeys
        /\ cons[c].nreplay >= 3
        /\ Len(_cache.emitted) > 0

\* C2 (as stated): whatever the capacity, the descending iterator orders the
\* keys by the time of their most recent publish, and the ascending iterator
\* is its exact reverse.
C2_RepublishMovesToNewest ==
    LET d == entriesDescending(_cache, now).out
        a == entriesAscending(_cache, now).out
    IN  /\ \A i, j \in DOMAIN d : i < j => d[i].id > d[j].id
        /\ a = Reverse(d)

\* the replay a capacity N store owes after m publishes of distinct keys
Retained(N, m) == IF m < N THEN m ELSE N + (m % N)

\* C3 (as stated): with capacity N, after N+1 distinct keys, the sink received
\* exactly one notification, the oldest value, and an attach is not replayed it.
C3_EvictsOldestAtNPlusOne ==
    [][\A c \in Consumers :
         (Attaches(c) /\ DistinctKeys /\ NoExpiry
             /\ config.maxSize # POSITIVE_INFINITY
             /\ PubCount = config.maxSize + 1) =>
                 /\ EvictionSink = <<PubValues[1]>>
                 /\ PubValues[1] \notin Range(ReplayOf(cons'[c]))]_vars

PublishedKeys == {history.published[i].key : i \in DOMAIN history.published}
Latest(key) ==
    CHOOSE i \in DOMAIN history.published :
        /\ history.published[i].key = key
        /\ \A j \in DOMAIN history.published :
               history.published[j].key = key => j <= i
Expired(i) ==
    /\ config.maxAge # POSITIVE_INFINITY
    /\ history.published[i].at + config.maxAge <= now

\* C5 (as stated): every admitted value that was neither reported to the sink,
\* nor removed by delete / clear / resize, nor overwritten by a later publish
\* of its key, is delivered by the replay of the next attach.
C5_UnevictedIsReplayed ==
    [][\A c \in Consumers : Attaches(c) =>
         \A key \in PublishedKeys :
             LET i == Latest(key)
             IN  (i \notin EmittedIds /\ i \notin history.removed) =>
                     history.published[i].value \in Range(ReplayOf(cons'[c]))]_vars

\* C5 (amended): ... nor past its maxAge at the time of the attach ...
C5_UnevictedUnexpiredIsReplayed ==
    [][\A c \in Consumers : Attaches(c) =>
         \A key \in PublishedKeys :
             LET i == Latest(key)
             IN  (i \notin EmittedIds /\ i \notin history.removed /\ ~Expired(i)) =>
                     history.published[i].value \in Range(ReplayOf(cons'[c]))]_vars

\* an attach replayed a value after an eviction, an explicit removal and an
\* overwrite had all happened
C5_Witness ==
    \E c \in Consumers :
        /\ cons[c].nreplay >= 1
        /\ cons[c].from = PubCount
        /\ history.removed # {}
        /\ _cache.emitted # <<>>
        /\ ~DistinctKeys

\* the values a consumer received after its replay, and the publishes made
\* while it was attached to the open channel
LiveOf(cn) == SubSeq(NextValues(cn), cn.nreplay + 1, Len(NextValues(cn)))
LiveEnd(cn) == IF cn.st = "attached" THEN PubCount ELSE cn.upto

\* C6: a consumer receives each value published between its attach and its
\* detach (or the terminal signal) exactly once and in publish order, so all
\* consumers attached over the same publishes receive the same live sequence.
C6_LiveInPublishOrder ==
    \A c \in Consumers :
        cons[c].st # "new" =>
            LiveOf(cons[c]) = SubSeq(PubValues, cons[c].from + 1, LiveEnd(cons[c]))

\* two consumers, attached at different times, both received two live values
C6_Witness ==
    /\ \A c \in Consumers : cons[c].st = "attached" /\ Len(LiveOf(cons[c])) >= 2
    /\ \E c, d \in Consumers : cons[c].from # cons[d].from

\* C7: the replay is delivered completely within the attach call, one next
\* per live entry in the store's descending order, and a consumer's whole
\* received sequence is that replay followed by exactly the values published
\* after the attach.
C7_ReplayThenLive ==
    /\ [][\A c \in Consumers : Attaches(c) =>
             /\ NextValues(cons'[c]) = ValuesOf(entriesDescending(_cache, now).out)
             /\ cons'[c].nreplay = Len(NextValues(cons'[c]))]_vars
    /\ [](\A c \in Consumers : cons[c].st # "new" =>
             NextValues(cons[c]) =
                 ReplayOf(cons[c]) \o SubSeq(PubValues, cons[c].from + 1, LiveEnd(cons[c])))

\* a consumer attached in the middle of a publish sequence: it was replayed
\* two values and then received two live ones
C7_Witness ==
    \E c \in Consumers :
        /\ cons[c].nreplay >= 2
        /\ Len(LiveOf(cons[c])) >= 2

Count(seq, v) == Cardinality({i \in DOMAIN seq : seq[i] = v})

\* C8 (as stated): a value published from a callback during the replay of an
\* attach is delivered to the attaching consumer exactly once.
C8_PublishDuringAttachDeliveredOnce ==
    [][\A c \in Consumers :
         (Attaches(c) /\ cons'[c].hook.at # 0 /\ cons'[c].nreplay >= cons'[c].hook.at) =>
             Count(NextValues(cons'[c]), cons'[c].hook.val) = 1]_vars

TerminalEv(subj) == IF subj.hasError THEN ErrorEv(subj.thrownError) ELSE CompleteEv
TerminalCount(log) == Len(SelectSeq(log, LAMBDA ev : ev.t # "next"))

\* C9: the first fail or close delivers its signal to every attached consumer
\* that has the handlers, after all the values published before it; a consumer
\* never receives a second terminal signal, and a later fail or close delivers
\* nothing and does not replace the recorded signal.
C9_TerminalOnceFirstWins ==
    [][/\ (~subject.isStopped /\ subject'.isStopped) =>
             \A c \in Consumers :
                 cons[c].st = "attached" =>
                     /\ cons'[c].st = "stopped"
                     /\ LiveOf(cons[c]) = SubSeq(PubValues, cons[c].from + 1, PubCount)
                     /\ cons'[c].log = IF cons[c].kind = "obs"
                                       THEN Append(cons[c].log, TerminalEv(subject'))
                                       ELSE cons[c].log
       /\ subject.isStopped =>
             /\ subject' = subject
             /\ \A c \in Consumers : cons[c].st # "new" => cons'[c].log = cons[c].log
       /\ \A c \in Consumers :
             /\ TerminalCount(cons'[c].log) <= 1
             /\ TerminalCount(cons'[c].log) = 1 =>
                    cons'[c].log[Len(cons'[c].log)].t # "next"]_vars

\* two observers received values and then the same error
C9_Witness ==
    /\ subject.hasError
    /\ \A c \in Consumers :
          /\ cons[c].kind = "obs" /\ cons[c].st = "stopped"
          /\ Len(LiveOf(cons[c])) >= 1
          /\ cons[c].log[Len(cons[c].log)] = ErrorEv(subject.thrownError)
          /\ cons[c].upto < PubCount

\* C10: a consumer attaching to a terminal channel receives, within the attach
\* call, the replay of all live cached values in the store's descending order
\* and then the recorded terminal signal, and nothing after it.
C10_LateAttachReplayThenTerminal ==
    [][/\ \A c \in Consumers :
             (Attaches(c) /\ subject.isStopped) =>
                 /\ cons'[c].st = "stopped"
                 /\ NextValues(cons'[c]) = ValuesOf(entriesDescending(_cache, now).out)
                 /\ cons'[c].kind = "obs" =>
                        cons'[c].log =
                            [i \in 1..cons'[c].nreplay |-> NextEv(NextValues(cons'[c])[i])]
                                \o <<TerminalEv(subject)>>
       /\ \A c \in Consumers :
             cons[c].st = "stopped" => cons'[c] = cons[c]]_vars

\* an observer attached after the error: two replayed values, then the error,
\* and a publish made afterwards did not reach it
C10_Witness ==
    \E c \in Consumers :
        /\ subject.hasError /\ cons[c].kind = "obs"
        /\ cons[c].st = "stopped" /\ cons[c].from = cons[c].upto
        /\ cons[c].nreplay >= 2
        /\ cons[c].log[Len(cons[c].log)] = ErrorEv(subject.thrownError)
        /\ cons[c].from < PubCount

\* C11 (as stated): a publish on a terminal channel is a no-op: nothing is
\* forwarded to a consumer and the store is left as it was.
C11_PublishAfterTerminalIsNoOp ==
    [][(subject.isStopped /\ PubCount' > PubCount) =>
           /\ _cache' = _cache
           /\ cons' = cons]_vars

\* C12: next(undefined) and next(null) return normally and leave the store
\* (entries, order, expiries), the observers, every consumer's log and the
\* eviction sink as they were.
C12_NullPublishChangesNothing ==
    \A value \in {undefined, null} :
        LET S == next(Cur, value)
        IN  /\ S.q = _cache
            /\ S.subj = subject
            /\ S.cons = cons
            /\ S.hist.published = history.published
            /\ S.hist.logged = history.logged + 1

\* a null publish was made on a store that holds an expiring entry and has
\* reported an eviction, with a consumer attached
C12_Witness ==
    /\ history.logged > 0
    /\ config.maxAge = TTL
    /\ _cache.size > 0
    /\ _cache.emitted # <<>>
    /\ subject.observers # <<>>

\* C13 (as stated): subscribe with something that has no next method throws,
\* and neither the observers nor the store change.
C13_NoNextHandlerIsRejected ==
    [][\A c \in Consumers :
         (Attaches(c) /\ ~HasNext(cons'[c].kind)) =>
             /\ cons'[c].st = "threw"
             /\ subject' = subject
             /\ _cache' = _cache]_vars

\* C14: a detached consumer receives nothing more, a second unsubscribe of
\* its handle changes nothing, and the detach itself leaves the store, the
\* other consumers and the other observers as they were.
C14_DetachIsFinalAndLocal ==
    /\ [][\A c \in Consumers :
             /\ cons[c].st = "detached" => cons'[c] = cons[c]
             /\ (cons[c].st = "attached" /\ cons'[c].st = "detached") =>
                    /\ _cache' = _cache
                    /\ cons'[c].log = cons[c].log
                    /\ \A d \in Consumers \ {c} : cons'[d] = cons[d]
                    /\ subject'.observers =
                           SelectSeq(subject.observers, LAMBDA o : o # c)]_vars
    /\ [](\A c \in Consumers : cons[c].st = "detached" => unsubscribe(Cur, c) = Cur)

\* a consumer detached, values were published afterwards and the channel then
\* failed, while the other consumer stayed attached and received all of it
C14_Witness ==
    \E c, d \in Consumers :
        /\ cons[c].st = "detached" /\ cons[c].upto + 2 <= PubCount
        /\ Len(NextValues(cons[c])) >= 1
        /\ cons[d].st = "stopped" /\ cons[d].kind = "obs"
        /\ cons[d].from <= cons[c].upto /\ cons[d].upto = PubCount
        /\ subject.hasError

\* the shared output: its live subscriptions to the source, what a subscriber
\* of the output received, and the step that is its subscribe call
LiveUpstreams == {i \in Sharers : shared[i].subscription = "live"}
Sharer(i) == shared[i].S.cons[Solo]
ShareAttaches(i) == ~shared[i].made /\ shared'[i].made
CachedBy(i) == ValuesOf(entriesDescending(shared[i].S.q, now).out)
NextEvents(vs) == [k \in DOMAIN vs |-> NextEv(vs[k])]

\* C15 (as stated): whatever the attaches and detaches on one shared output,
\* at most one subscription to the source is live.
C15_AtMostOneUpstream == Cardinality(LiveUpstreams) <= 1

\* C16 (as stated): two subscribers attach to the shared output and both
\* detach: the source saw one subscribe and one unsubscribe; a third
\* subscriber attaching afterwards makes it two subscribes.
C16_TwoAttachOneUpstream ==
    LET twoCameAndWent ==
            /\ ~source.isStopped
            /\ shared[1].made /\ shared[2].made /\ shared[2].peers = 1
            /\ Sharer(1).st = "detached" /\ Sharer(2).st = "detached"
    IN  /\ (twoCameAndWent /\ ~shared[3].made) =>
               (source.subscribes = 1 /\ source.unsubscribes = 1)
        /\ (twoCameAndWent /\ shared[3].made /\ shared[3].peers = 0
               /\ Sharer(3).st = "attached") =>
               (source.subscribes = 2 /\ source.unsubscribes = 1)

\* the subscriber of the output that has been attached the longest
FirstAttached == CHOOSE i \in AttachedTo(shared) : \A j \in AttachedTo(shared) : i <= j

\* C17 (as stated): a subscriber attaching to the shared output while an
\* earlier one is attached and has values cached is replayed those values,
\* newest first, and the source is not subscribed again.
C17_SecondAttachReplaysNoResubscribe ==
    [][\A i \in Sharers :
         (/\ ShareAttaches(i)
          /\ ~source.isStopped
          /\ AttachedTo(shared) # {}
          /\ CachedBy(FirstAttached) # <<>>) =>
             /\ source'.subscribes = source.subscribes
             /\ ReplayOf(shared'[i].S.cons[Solo]) = CachedBy(FirstAttached)]_vars

\* C18: while the source has not failed or completed, activeSubscribers is
\* never negative and the subscription to the source is live exactly when
\* activeSubscribers is positive, for every run of the factory and for the
\* output as a whole; with no subscriber attached no subscription is live.
C18_UpstreamLiveIffSubscribers ==
    /\ \A i \in Sharers :
          ~shared[i].S.subj.isStopped =>
              /\ shared[i].activeSubscribers >= 0
              /\ shared[i].subscription = "live" <=> shared[i].activeSubscribers > 0
              /\ shared[i].activeSubscribers > 0 <=> i \in AttachedTo(shared)
    /\ ~source.isStopped => (LiveUpstreams # {} <=> AttachedTo(shared) # {})

\* the source has emitted and is still open; one subscriber of the output has
\* left, its counter is back at zero and its subscription to the source is
\* closed, while another is attached and its subscription is live
C18_Witness ==
    /\ ~source.isStopped /\ source.emitted # <<>>
    /\ \E i, j \in Sharers :
          /\ shared[i].made /\ Sharer(i).st = "detached"
          /\ shared[i].activeSubscribers = 0 /\ shared[i].subscription = "closed"
          /\ Sharer(j).st = "attached"
          /\ shared[j].activeSubscribers = 1 /\ shared[j].subscription = "live"
          /\ Len(NextValues(Sharer(j))) >= 1

\* C19: applying shareLRUReplay to a source does not subscribe to it: while
\* no subscriber has attached to the output, the source saw no subscribe.
C19_LazyUntilFirstAttach ==
    (\A i \in Sharers : ~shared[i].made) =>
        (source.subscribes = 0 /\ LiveUpstreams = {})

\* the source emitted twice before anybody subscribed to the output, unseen;
\* the first attach then subscribed to the source
C19_Witness ==
    /\ shared[1].made /\ ~shared[2].made
    /\ shared[1].S.hist.published = <<>>
    /\ Len(source.emitted) = 2
    /\ source.subscribes = 1 /\ LiveUpstreams = {1}

\* an earlier run of the factory that cached values and then saw the source end
SawTheEnd(j) ==
    /\ shared[j].made
    /\ shared[j].S.subj.isStopped
    /\ shared[j].S.hist.published # <<>>

\* C20 (as stated): once the source has failed or completed, an attach to the
\* shared output does not subscribe to the source again, and the subscriber
\* receives the cached values and then the terminal signal.
C20_AttachAfterEndNoResubscribe ==
    [][\A i \in Sharers :
         (ShareAttaches(i) /\ source.isStopped /\ \E j \in Sharers : SawTheEnd(j)) =>
             /\ source'.subscribes = source.subscribes
             /\ \E j \in Sharers :
                   /\ SawTheEnd(j)
                   /\ shared'[i].S.cons[Solo].log =
                          NextEvents(CachedBy(j)) \o <<TerminalEv(source)>>]_vars

\* C21: while a subscriber is attached to the shared output, each value the
\* source emits is stored by its subject and appended to what it received;
\* the source's error or completion reaches it as the same error or as
\* complete; a stopped subscriber receives nothing more.
C21_UpstreamPipedToAttached ==
    [][/\ \A i \in AttachedTo(shared) :
             /\ source'.emitted # source.emitted =>
                    LET v == source'.emitted[Len(source'.emitted)]
                        held == entriesDescending(shared'[i].S.q, now).out
                    IN  /\ shared'[i].S.cons[Solo].log = Append(Sharer(i).log, NextEv(v))
                        /\ held # <<>> /\ held[1].value = v
             /\ (~source.isStopped /\ source'.isStopped) =>
                    /\ shared'[i].S.cons[Solo].st = "stopped"
                    /\ shared'[i].S.cons[Solo].log =
                           Append(Sharer(i).log, TerminalEv(source'))
       /\ \A i \in Sharers :
             Sharer(i).st = "stopped" => shared'[i].S.cons[Solo] = Sharer(i)]_vars

\* two subscribers, attached at different times, received the values emitted
\* while they were attached and then the source's error; emissions continued
\* to be refused afterwards
C21_Witness ==
    /\ source.hasError /\ Len(source.emitted) >= 2
    /\ \E i, j \in Sharers :
          /\ i # j
          /\ Sharer(i).st = "stopped" /\ Sharer(j).st = "stopped"
          /\ NextValues(Sharer(i)) = source.emitted
          /\ Len(NextValues(Sharer(j))) = Len(source.emitted) - 1
          /\ Sharer(i).log[Len(Sharer(i).log)] = ErrorEv(source.thrownError)
          /\ Sharer(j).log[Len(Sharer(j).log)] = ErrorEv(source.thrownError)

\* C22: over a source that hands every subscribe the distinct values v1..vn
\* and then complete, each subscriber of the shared output, first or later,
\* receives the retained values newest first (vn first) and then complete.
C22_ColdSourceReplayedToEach ==
    [][\A i \in Sharers :
         (ShareAttaches(i) /\ source.cold) =>
             LET n == Len(source.script)
                 k == IF config.maxSize = POSITIVE_INFINITY THEN n
                      ELSE Retained(config.maxSize, n)
             IN  shared'[i].S.cons[Solo].log =
                     NextEvents(SubSeq(Reverse(source.script), 1, k)) \o <<CompleteEv>>]_vars

\* of(1, 2, 3) shared with maxSize 2: two subscribers each received 3, 2, 1
\* and complete
C22_Witness ==
    /\ source.cold /\ Len(source.script) = 3 /\ config.maxSize = 2
    /\ \A i \in {1, 2} :
          /\ shared[i].made
          /\ Sharer(i).log = <<NextEv(3), NextEv(2), NextEv(1), CompleteEv>>

\* C23: unsubscribing from the shared output never throws to the caller: an
\* exception from releasing the subscription to the source is caught in the
\* cleanup and logged.
C23_CleanupNeverRaises ==
    \A i \in Sharers : shared[i].failure # "raised"

\* a subscriber detached, the teardown of the source subscription threw, and
\* the exception was logged
C23_Witness ==
    \E i \in Sharers :
        /\ source.fragile
        /\ Sharer(i).st = "detached"
        /\ shared[i].failure = "logged"
        /\ shared[i].subscription = "closed"

\* C24: with a default maxAge T, the entry last admitted under a key at time
\* t, unless deleted, cleared or resized away, is replayed by an attach before
\* t + T if it was not evicted, and by no attach from t + T on; after such an
\* attach its value has been reported to the sink exactly once, whether or
\* not anything touched the store in between.
C24_ExpiryAtAttach ==
    [][\A c \in Consumers :
         (Attaches(c) /\ ~NoExpiry) =>
             \A key \in PublishedKeys :
                 LET i == Latest(key)
                     v == history.published[i].value
                 IN  i \notin history.removed =>
                         /\ (~Expired(i) /\ i \notin EmittedIds) =>
                                v \in Range(ReplayOf(cons'[c]))
                         /\ Expired(i) =>
                                /\ v \notin Range(ReplayOf(cons'[c]))
                                /\ Count(IdsIn(_cache'.emitted), i) = 1]_vars

\* unbounded capacity, two publishes a tick apart and nothing else until the
\* attach: the younger value was replayed, the older one reported as expired
C24_Witness ==
    \E c \in Consumers :
        /\ config.maxSize = POSITIVE_INFINITY /\ config.maxAge = TTL
        /\ PubCount = 2 /\ history.removed = {}
        /\ cons[c].from = 2
        /\ ReplayOf(cons[c]) = <<history.published[2].value>>
        /\ EvictionSink = <<history.published[1].value>>

\* the key was admitted before, and that admission is past its maxAge
Republished(i) ==
    \E j \in DOMAIN history.published :
        /\ j < i
        /\ history.published[j].key = history.published[i].key
        /\ history.published[j].at + config.maxAge <= now

\* C25: publishing a key again at time t2 gives its entry the expiry t2 + T:
\* every stored entry expires T after its own admission, and a re-published
\* entry is replayed by an attach before t2 + T even when the key's earlier
\* admission is more than T in the past.
C25_RepublishResetsExpiry ==
    /\ [](~NoExpiry =>
             \A e \in Range(_cache.cache) \cup Range(_cache.oldCache) :
                 e.expiry = history.published[e.id].at + config.maxAge)
    /\ [][\A c \in Consumers :
             (Attaches(c) /\ ~NoExpiry) =>
                 \A key \in PublishedKeys :
                     LET i == Latest(key)
                     IN  (/\ Republished(i) /\ ~Expired(i)
                          /\ i \notin EmittedIds /\ i \notin history.removed) =>
                             history.published[i].value \in Range(ReplayOf(cons'[c]))]_vars

\* a value published, left until its maxAge had passed, published again and
\* then replayed to an attach made after a further tick
C25_Witness ==
    \E c \in Consumers :
        /\ config.maxAge = TTL /\ cons[c].from = PubCount
        /\ \E i \in DOMAIN history.published :
              /\ i = Latest(history.published[i].key)
              /\ Republished(i) /\ ~Expired(i)
              /\ history.published[i].at < now
              /\ history.published[i].value \in Range(ReplayOf(cons[c]))

\* C27: in every state of the store, delete(key) and clear() leave what the
\* eviction sink has received as it is.
C27_DeleteClearNotReported ==
    /\ \A key \in Values : delete(_cache, key).emitted = _cache.emitted
    /\ clear(_cache).emitted = _cache.emitted

\* entries were deleted or cleared, one of them past its maxAge, and the sink
\* has received nothing
C27_Witness ==
    /\ ~history.resized
    /\ _cache.emitted = <<>>
    /\ \E i \in history.removed : Expired(i)
    /\ \E i \in history.removed : ~Expired(i)

\* C30 (as stated): resize(n) below the number of live entries drops the
\* oldest ones and the eviction sink receives nothing for them.
C30_ResizeNotReported ==
    \A n \in Capacities :
        LET live == entriesAscending(_cache, now)
        IN  Len(live.out) > n => resize(_cache, n, now).emitted = live.q.emitted

\* C26 (as stated): without a default maxAge, a published object with a
\* numeric maxAge field is not replayed to an attach made that long after its
\* publish, and an object without the field is always replayed.
C26_ItemMaxAgeExpires ==
    [][\A c \in Consumers :
         (Attaches(c) /\ NoExpiry /\ config.maxSize = POSITIVE_INFINITY) =>
             \A i \in DOMAIN history.published :
                 LET v == history.published[i].value
                     own == Shape(v).maxAge
                 IN  /\ (own # undefined /\ history.published[i].at + own <= now) =>
                            v \notin Range(ReplayOf(cons'[c]))
                     /\ own = undefined => v \in Range(ReplayOf(cons'[c]))]_vars

\* C28 (as stated): with a key path configured, every published object that
\* lacks the path is stored under itself, so all of them are replayed to a
\* later attach.
C28_MissingKeyFallsBackToValue ==
    [][\A c \in Consumers :
         (/\ Attaches(c)
          /\ config.key /\ ~config.map
          /\ config.maxSize = POSITIVE_INFINITY) =>
             \A i \in DOMAIN history.published :
                 tryExtractKey(config.key, history.published[i].value) = undefined =>
                     history.published[i].value \in Range(ReplayOf(cons'[c]))]_vars

\* C29: with config.map and config.key both given, every publish is recorded
\* and stored under the key config.map returns for the value.
C29_CustomMapTakesPrecedence ==
    (config.map /\ config.key) =>
        /\ \A i \in DOMAIN history.published :
              history.published[i].key = customMap(history.published[i].value)
        /\ \A e \in Range(_cache.cache) \cup Range(_cache.oldCache) :
              e.key = customMap(e.value)

\* both configured; the objects 1 and 2, which config.map gives one key and
\* the key path does not, were published, and an attach was replayed 2 only
C29_Witness ==
    \E c \in Consumers :
        /\ config.map /\ config.key /\ config.maxSize = POSITIVE_INFINITY
        /\ cons[c].from >= 2
        /\ PubValues[1] = 1 /\ PubValues[2] = 2
        /\ customMap(1) = customMap(2)
        /\ tryExtractKey(TRUE, 1) # tryExtractKey(TRUE, 2)
        /\ 2 \in Range(ReplayOf(cons[c]))
        /\ 1 \notin Range(ReplayOf(cons[c]))

StoredIds == IdsOf(_cache.cache) \cup IdsOf(_cache.oldCache)

\* C31: delete(key) and clear() change the store only: no consumer receives
\* anything and the observers and the terminal status stay as they are; an
\* entry removed by them is in the store no more, and no attach is replayed
\* the value of a key whose last admission was deleted or cleared.
C31_DeleteClearTouchOnlyTheStore ==
    /\ [][history'.removed # history.removed =>
              (cons' = cons /\ subject' = subject)]_vars
    /\ [](StoredIds \cap history.removed = {})
    /\ [][\A c \in Consumers :
             Attaches(c) =>
                 \A key \in PublishedKeys :
                     Latest(key) \in history.removed =>
                         history.published[Latest(key)].value
                             \notin Range(ReplayOf(cons'[c]))]_vars

\* no capacity limit and no maxAge: the first consumer was replayed two
\* values, then the store was emptied by delete or clear, and the second
\* consumer was replayed nothing; the first is still attached
C31_Witness ==
    /\ NoExpiry /\ config.maxSize = POSITIVE_INFINITY /\ ~history.resized
    /\ cons[1].st = "attached" /\ cons[1].nreplay = 2
    /\ cons[2].st = "attached" /\ cons[2].nreplay = 0 /\ cons[2].from >= 2
    /\ history.removed # {}

\* C32 (as stated): an entry reported to the eviction sink has left the store:
\* when the notification is made, the store holds nothing under its key,
\* except what the publish that caused the notification has just admitted.
C32_ReportedHasLeftTheStore ==
    [][\A k \in (Len(_cache.emitted) + 1)..Len(_cache'.emitted) :
         \A x \in Range(_cache'.cache) \cup Range(_cache'.oldCache) :
             x.key = _cache'.emitted[k].key =>
                 (PubCount' > PubCount /\ x.id = PubCount')]_vars

\* C33: a replay delivers at most one value per derived key, and that value
\* is the one most recently published under the key.
C33_OneValuePerKeyInReplay ==
    [][\A c \in Consumers :
         Attaches(c) =>
             LET r == ReplayOf(cons'[c])
             IN  /\ \A a, b \in DOMAIN r : a # b => _mapper(r[a]) # _mapper(r[b])
                 /\ \A a \in DOMAIN r :
                       r[a] = history.published[Latest(_mapper(r[a]))].value]_vars

\* a key path is configured; the objects 1 and 3 have the same id, 2 has
\* none: after the publishes 1, 2, 3 an attach was replayed 3 and 2, not 1
C33_Witness ==
    \E c \in Consumers :
        /\ config.key /\ ~config.map
        /\ PubValues = <<1, 2, 3>> /\ cons[c].from = 3
        /\ _mapper(1) = _mapper(3)
        /\ Range(ReplayOf(cons[c])) = {2, 3}

\* C34 (as stated): when a callback publishes from inside a fan-out, every
\* other attached consumer still receives the values in the order in which
\* the publish calls were started.
C34_NestedPublishKeepsOrder ==
    \A c \in Consumers :
        (cons[c].st = "attached" /\ cons[c].hook.at = 0) =>
            LiveOf(cons[c]) = SubSeq(PubValues, cons[c].from + 1, PubCount)

NoneExpired ==
    \A e \in Range(_cache.cache) \cup Range(_cache.oldCache) :
        e.expiry = undefined \/ e.expiry > now

\* C36: an attach made when no entry is expired leaves the store exactly as
\* it was (entries, both orders, size), and iterating the store twice in a
\* row yields the same sequence.
C36_AttachDoesNotPromote ==
    /\ [][\A c \in Consumers : (Attaches(c) /\ NoneExpired) => _cache' = _cache]_vars
    /\ [](LET first == entriesDescending(_cache, now)
          IN  entriesDescending(first.q, now).out = first.out)

\* capacity 2: the second consumer attached right after the first, with
\* entries in both generations, and was replayed the same three values
C36_Witness ==
    /\ config.maxSize = 2
    /\ _cache.cache # <<>> /\ _cache.oldCache # <<>>
    /\ cons[1].kind = "fn" /\ cons[2].kind = "fn"
    /\ cons[1].nreplay = 3 /\ cons[2].from = cons[1].from
    /\ ReplayOf(cons[2]) = ReplayOf(cons[1])

\* C37: with capacity N and no resize, whatever was published, deleted and
\* cleared, the store never holds more than 2N - 1 live entries, and no attach
\* was replayed more.
C37_ReplayAtMostTwoNMinusOne ==
    (~history.resized /\ config.maxSize # POSITIVE_INFINITY) =>
        /\ Len(entriesDescending(_cache, now).out) <= 2 * config.maxSize - 1
        /\ \A c \in Consumers : cons[c].nreplay <= 2 * config.maxSize - 1

\* capacity 1: three publishes and a delete, and an attach replayed one value;
\* capacity 2: an attach replayed three
C37_Witness ==
    /\ ~history.resized /\ PubCount = MaxStorePublish
    /\ \E c \in Consumers :
          /\ cons[c].from = PubCount
          /\ cons[c].nreplay = 2 * config.maxSize - 1
          /\ history.removed # {}

\* C35: within one publish, the notifications of the entries the admission
\* pushed out have reached the eviction sink before any attached consumer is
\* handed the value: in its callback every consumer finds the sink complete.
C35_EvictionsBeforeForwarding ==
    [][PubCount' = PubCount + 1 =>
         \A c \in Consumers :
             cons[c].st = "attached" =>
                 /\ Len(NextValues(cons'[c])) = Len(NextValues(cons[c])) + 1
                 /\ cons'[c].seen = Len(_cache'.emitted)]_vars

\* capacity 1: the third publish pushed out the second value, and the consumer
\* attached since the first saw both notifications when it was handed the third
C35_Witness ==
    \E c \in Consumers :
        /\ config.maxSize = 1 /\ PubValues = <<1, 2, 3>>
        /\ cons[c].st = "attached" /\ cons[c].from = 1
        /\ LiveOf(cons[c]) = <<2, 3>>
        /\ ValuesOf(_cache.emitted) = <<1, 2>>
        /\ cons[c].seen = 2

Threw(cn) == cn.st = "threw" /\ cn.hook.throws

\* C38 (as stated): when the attaching consumer's callback throws in the
\* replay, the consumer is not registered and is handed nothing afterwards,
\* and the entries of the store are what they were before the attach.
C38_ThrowInReplayLeavesStore ==
    /\ [][\A c \in Consumers :
             (Attaches(c) /\ Threw(cons'[c])) =>
                 /\ subject' = subject
                 /\ _cache'.cache = _cache.cache
                 /\ _cache'.oldCache = _cache.oldCache]_vars
    /\ [][\A c \in Consumers : Threw(cons[c]) => cons'[c] = cons[c]]_vars

\* what is left of a generation once expired entries were taken out of it
PurgedTo(before, after) ==
    /\ after = SelectSeq(before, LAMBDA e : e \in Range(after))
    /\ \A e \in Range(before) \ Range(after) :
          e.expiry # undefined /\ e.expiry <= now

\* C38 (amended): when the attaching consumer's callback throws in the
\* replay, the consumer is not registered and is handed nothing afterwards;
\* the store keeps every entry that was not expired, in the same order, and
\* may have lost expired ones.
C38_ThrowInReplayLeavesLiveEntries ==
    /\ [][\A c \in Consumers :
             (Attaches(c) /\ Threw(cons'[c])) =>
                 /\ subject' = subject
                 /\ PurgedTo(_cache.cache, _cache'.cache)
                 /\ PurgedTo(_cache.oldCache, _cache'.oldCache)]_vars
    /\ [][\A c \in Consumers : Threw(cons[c]) => cons'[c] = cons[c]]_vars

\* the callback threw at the second replayed value; a value was published and
\* the subject failed afterwards, and a consumer attached later was handed the
\* error while the one that threw has only its two replayed values
C38_Witness ==
    \E c, d \in Consumers :
        /\ Threw(cons[c]) /\ Len(cons[c].log) = 2 /\ cons[c].from = 0
        /\ PubCount = 3 /\ subject.hasError
        /\ cons[d].st = "stopped" /\ cons[d].from = 3

====
